---- MODULE Spec2Model ----
(***************************************************************************)
(* Model of the video conversion service (Flask-VM-App/app.py) and of the  *)
(* storage-triggered transcription function (Cloud-Run-Function/main.py).  *)
(*                                                                         *)
(* Strings are sequences of one-character strings, so that the naming      *)
(* code (f-strings, os.path.splitext, os.path.join, str.lower,             *)
(* str.startswith, str.endswith) is computed character by character.       *)
(***************************************************************************)
EXTENDS Naturals, Sequences, FiniteSets

VARIABLES
    storage_client,  \* app.py: TRUE when storage.Client() was constructed at start-up
    store,           \* objects of both buckets: records [bucket, name, content_type]
    localFiles,      \* paths that exist on the VM's local disk
    req,             \* the in-flight HTTP requests of the Flask app, per worker
    usedIds,         \* job identifiers uuid4 has handed out
    numReq,          \* HTTP requests admitted so far
    events,          \* storage events not yet delivered to the function
    jobs,            \* annotate_video operations the transcription service holds
    trig,            \* the last invocation of process_video_transcription
    poll,            \* the last answer of download_options
    pair             \* two conversion requests' derived names (naming only)

vars == <<storage_client, store, localFiles, req, usedIds, numReq,
          events, jobs, trig, poll, pair>>

(***************************************************************************)
(* Bounds of the model.                                                    *)
(***************************************************************************)
\* length of a job identifier (str(uuid.uuid4()) has one fixed length)
IdLen == 2
\* longest user-chosen file name in the naming specification
MaxFileLen == 2
\* longest free part of an object name in a storage event
MaxBodyLen == 2
\* HTTP requests admitted over a run
MaxRequests == 2

(***************************************************************************)
(* Python string primitives.                                               *)
(***************************************************************************)
Max(S) == CHOOSE x \in S : \A y \in S : y <= x

\* all sequences over alphabet A of length at most n
SeqsUpTo(A, n) == UNION {[1..k -> A] : k \in 0..n}

\* str.rfind(c) + 1: the last position of c in s, 0 when there is none
rfind(s, c) ==
    LET I == {i \in 1..Len(s) : s[i] = c}
    IN  IF I = {} THEN 0 ELSE Max(I)

startswith(s, p) == Len(p) <= Len(s) /\ SubSeq(s, 1, Len(p)) = p

endswith(s, p) == Len(p) <= Len(s) /\ SubSeq(s, Len(s) - Len(p) + 1, Len(s)) = p

\* str.endswith(tuple of suffixes)
endswith_any(s, P) == \E p \in P : endswith(s, p)

UpperToLower ==
    [c \in {"A", "E", "G", "I", "K", "M", "O", "P", "V", "W", "B"} |->
        CASE c = "A" -> "a" [] c = "E" -> "e" [] c = "G" -> "g" [] c = "I" -> "i"
          [] c = "K" -> "k" [] c = "M" -> "m" [] c = "O" -> "o" [] c = "P" -> "p"
          [] c = "V" -> "v" [] c = "W" -> "w" [] c = "B" -> "b"]

\* str.lower() on the characters the model uses
lower(s) == [i \in 1..Len(s) |->
                IF s[i] \in DOMAIN UpperToLower THEN UpperToLower[s[i]] ELSE s[i]]

\* posixpath.splitext: <<root, ext>>.  The extension starts at the last dot of
\* the last path component, unless that component has only dots before it.
splitext(p) ==
    LET sepIndex == rfind(p, "/")
        dotIndex == rfind(p, ".")
    IN  IF dotIndex > sepIndex
           /\ \E k \in (sepIndex + 1)..(dotIndex - 1) : p[k] # "."
        THEN <<SubSeq(p, 1, dotIndex - 1), SubSeq(p, dotIndex, Len(p))>>
        ELSE <<p, <<>>>>

\* posixpath.join(a, b) for two components
path_join(a, b) ==
    IF b # <<>> /\ b[1] = "/" THEN b
    ELSE IF a = <<>> \/ a[Len(a)] = "/" THEN a \o b
    ELSE a \o <<"/">> \o b

(***************************************************************************)
(* Configuration of the two programs.                                      *)
(***************************************************************************)
INPUT_BUCKET_NAME ==
    <<"v", "i", "d", "e", "o", "-", "i", "m", "a", "g", "e", "-",
      "i", "n", "p", "u", "t", "-", "b", "u", "c", "k", "e", "t">>

OUTPUT_BUCKET_NAME ==
    <<"v", "i", "d", "e", "o", "-", "i", "m", "a", "g", "e", "-",
      "o", "u", "t", "p", "u", "t", "-", "b", "u", "c", "k", "e", "t">>

TEMP_DOWNLOAD_DIR ==
    <<"/", "t", "m", "p", "/", "v", "i", "d", "e", "o", "c", "o", "n", "v", "e",
      "r", "t", "e", "r", "_", "d", "o", "w", "n", "l", "o", "a", "d", "s">>

TEMP_PROCESSING_DIR ==
    <<"/", "t", "m", "p", "/", "v", "i", "d", "e", "o", "c", "o", "n", "v", "e",
      "r", "t", "e", "r", "_", "p", "r", "o", "c", "e", "s", "s", "i", "n", "g">>

OUTPUT_FOLDER ==
    <<"t", "r", "a", "n", "s", "c", "r", "i", "p", "t", "i", "o", "n", "s", "/">>

supported_extensions ==
    { <<".", "m", "p", "4">>, <<".", "m", "o", "v">>, <<".", "a", "v", "i">>,
      <<".", "m", "p", "g">>, <<".", "m", "p", "e", "g">>, <<".", "m", "k", "v">>,
      <<".", "w", "e", "b", "m">> }

UploadsPrefix == <<"u", "p", "l", "o", "a", "d", "s", "/">>

ConvertedPrefix == <<"c", "o", "n", "v", "e", "r", "t", "e", "d", "/">>

JsonSuffix == <<".", "j", "s", "o", "n">>

(***************************************************************************)
(* Names derived by convert_video (app.py 138-154).                        *)
(***************************************************************************)
\* str(uuid.uuid4()): identifiers of one fixed length over the identifier alphabet
JobIds == [1..IdLen -> {"0", "1"}]

gcs_input_filename(job_id, original_filename) ==
    job_id \o <<"_">> \o original_filename

gcs_output_filename_NoJobId(job_id, original_filename, target_format) ==
    splitext(original_filename)[1] \o <<".">> \o target_format

gcs_output_filename(job_id, original_filename, target_format) ==
    job_id \o <<"_">> \o splitext(original_filename)[1] \o <<".">> \o target_format

local_input_path(job_id, original_filename) ==
    path_join(TEMP_PROCESSING_DIR,
              <<"i", "n", "p", "u", "t", "_">>
                 \o gcs_input_filename(job_id, original_filename))

local_output_path(job_id, original_filename, target_format) ==
    path_join(TEMP_PROCESSING_DIR,
              <<"o", "u", "t", "p", "u", "t", "_">>
                 \o gcs_output_filename(job_id, original_filename, target_format))

input_blob_name(job_id, original_filename) ==
    UploadsPrefix \o gcs_input_filename(job_id, original_filename)

output_blob_name(job_id, original_filename, target_format) ==
    ConvertedPrefix \o gcs_output_filename(job_id, original_filename, target_format)

(***************************************************************************)
(* Names derived by download_options, download_video_file and              *)
(* download_transcription_file (app.py 274-282, 322, 331).                 *)
(***************************************************************************)
video_blob_name(identifier) == ConvertedPrefix \o identifier

transcription_filename(identifier) == splitext(identifier)[1] \o JsonSuffix

transcription_blob_name_NoConverted(identifier) ==
    OUTPUT_FOLDER \o transcription_filename(identifier)

transcription_blob_name(identifier) ==
    OUTPUT_FOLDER \o ConvertedPrefix \o transcription_filename(identifier)

download_local_path(download_filename) ==
    path_join(TEMP_DOWNLOAD_DIR, download_filename)

(***************************************************************************)
(* URIs built by process_video_transcription (main.py 43-49).              *)
(***************************************************************************)
GsScheme == <<"g", "s", ":", "/", "/">>

gcs_input_uri(bucket_name, file_name) ==
    GsScheme \o bucket_name \o <<"/">> \o file_name

gcs_output_uri(bucket_name, file_name) ==
    GsScheme \o bucket_name \o <<"/">> \o OUTPUT_FOLDER
        \o splitext(file_name)[1] \o JsonSuffix

(***************************************************************************)
(* The Flask application (app.py).  Each worker serves one request at a    *)
(* time; a request advances through the blocks of its handler, and the     *)
(* requests of different workers interleave between blocks.                *)
(***************************************************************************)
Workers == {1, 2}

IdleReq ==
    [kind |-> "idle", pc |-> "idle", has_video |-> FALSE, filename |-> <<>>,
     has_format |-> FALSE, format |-> <<>>, route |-> "", job_id |-> <<>>,
     status |-> 0, io |-> {}, failed_at |-> "", exists_result |-> ""]

Mov == <<"m", "o", "v">>

Avi == <<"a", "v", "i">>

\* file names a client submits with POST /convert
UploadFilenames == { <<>>, <<"a", ".", "m", "p", "4">> }

\* values of the form field 'format' a client submits
TargetFormats == { <<>>, Mov, <<"m", "p", "4">>, <<"g", "i", "f">> }

\* the identifiers uuid4 hands out to the requests of a run
FreshJobIds == {[i \in 1..IdLen |-> c] : c \in {"0", "1"}}

\* a converted video left in the output bucket by an earlier run of the service
PriorJobId == [i \in 1..IdLen |-> IF i = 1 THEN "1" ELSE "0"]

PriorObject ==
    [bucket |-> OUTPUT_BUCKET_NAME,
     name |-> output_blob_name(PriorJobId, <<"a", ".", "m", "p", "4">>, Mov),
     content_type |-> "none"]

Blob(bucket, name) == {o \in store : o.bucket = bucket /\ o.name = name}

\* blob.exists()
blob_exists(bucket, name) == Blob(bucket, name) # {}

\* blob.upload_from_*: the object is replaced as a whole
put(bucket, name, content_type) ==
    (store \ Blob(bucket, name))
        \cup {[bucket |-> bucket, name |-> name, content_type |-> content_type]}

\* abort(code): the request ends with this status
Abort(r, code, stage) == [r EXCEPT !.pc = "done", !.status = code, !.failed_at = stage]

FlaskUnchanged == UNCHANGED <<events, jobs, trig, poll, pair>>

\* a client sends POST /convert
ReceiveConvert(w) ==
    /\ req[w].kind = "idle"
    /\ numReq < MaxRequests
    /\ \E hv \in BOOLEAN, hf \in BOOLEAN :
       \E fn \in (IF hv THEN UploadFilenames ELSE {<<>>}),
          tf \in (IF hf THEN TargetFormats ELSE {<<>>}) :
            req' = [req EXCEPT ![w] =
                      [IdleReq EXCEPT !.kind = "convert", !.pc = "validate",
                                      !.has_video = hv, !.filename = fn,
                                      !.has_format = hf, !.format = tf]]
    /\ numReq' = numReq + 1
    /\ UNCHANGED <<storage_client, store, localFiles, usedIds>>
    /\ FlaskUnchanged

\* 'video' not in request.files (app.py 127)
missing_file_part(has_video) == ~has_video

invalid_file_or_format_IgnoresFormat(filename, has_format, format) ==
    filename = <<>>

\* video_file.filename == '' or not target_format (app.py 134); request.form.get
\* gives None for an absent field, and None and '' are both falsy
invalid_file_or_format(filename, has_format, format) ==
    filename = <<>> \/ ~has_format \/ format = <<>>

\* app.py 123-143: the client check, the validation, and the job identifier
convert_validate(w) ==
    LET r == req[w] IN
    /\ r.kind = "convert" /\ r.pc = "validate"
    /\ IF ~storage_client
       THEN /\ req' = [req EXCEPT ![w] = Abort(r, 500, "client")]
            /\ UNCHANGED usedIds
       ELSE IF missing_file_part(r.has_video)
       THEN /\ req' = [req EXCEPT ![w] = Abort(r, 400, "validate")]
            /\ UNCHANGED usedIds
       ELSE IF invalid_file_or_format(r.filename, r.has_format, r.format)
       THEN /\ req' = [req EXCEPT ![w] = Abort(r, 400, "validate")]
            /\ UNCHANGED usedIds
       ELSE \E id \in FreshJobIds \ usedIds :
            /\ req' = [req EXCEPT ![w] = [r EXCEPT !.pc = "upload_input", !.job_id = id]]
            /\ usedIds' = usedIds \cup {id}
    /\ UNCHANGED <<storage_client, store, localFiles, numReq>>
    /\ FlaskUnchanged

\* app.py 157-167: upload of the received file to the input bucket
convert_upload_input(w) ==
    LET r == req[w] IN
    /\ r.kind = "convert" /\ r.pc = "upload_input"
    /\ \/ /\ store' = put(INPUT_BUCKET_NAME, input_blob_name(r.job_id, r.filename), "client")
          /\ req' = [req EXCEPT ![w] =
                       [r EXCEPT !.pc = "fetch_input", !.io = @ \cup {"put_input"}]]
       \/ \* upload_from_file raises
          /\ req' = [req EXCEPT ![w] = Abort(r, 500, "upload_input")]
          /\ UNCHANGED store
    /\ UNCHANGED <<storage_client, localFiles, usedIds, numReq>>
    /\ FlaskUnchanged

\* app.py 170-187: the uploaded object is fetched back to the local input path.
\* download_to_filename opens the local file before it asks the store, so a
\* failed download may or may not leave a file behind.
convert_fetch_input(w) ==
    LET r == req[w]
        path == local_input_path(r.job_id, r.filename)
        name == input_blob_name(r.job_id, r.filename)
    IN
    /\ r.kind = "convert" /\ r.pc = "fetch_input"
    /\ \/ /\ blob_exists(INPUT_BUCKET_NAME, name)
          /\ localFiles' = localFiles \cup {path}
          /\ req' = [req EXCEPT ![w] =
                       [r EXCEPT !.pc = "transcode", !.io = @ \cup {"local_input"}]]
       \/ \* except NotFound (176-178): abort without any cleanup
          /\ ~blob_exists(INPUT_BUCKET_NAME, name)
          /\ \E leftover \in BOOLEAN :
                localFiles' = IF leftover THEN localFiles \cup {path} ELSE localFiles \ {path}
          /\ req' = [req EXCEPT ![w] =
                       [Abort(r, 500, "fetch_input") EXCEPT !.io = @ \cup {"local_input"}]]
       \/ \* except Exception (179-187): the partial file is removed if it exists
          /\ localFiles' = localFiles \ {path}
          /\ req' = [req EXCEPT ![w] =
                       [Abort(r, 500, "fetch_input") EXCEPT !.io = @ \cup {"local_input"}]]
    /\ UNCHANGED <<storage_client, store, usedIds, numReq>>
    /\ FlaskUnchanged

\* app.py 190-216: ffmpeg reads the local input and writes the local output
convert_transcode(w) ==
    LET r == req[w]
        inp == local_input_path(r.job_id, r.filename)
        out == local_output_path(r.job_id, r.filename, r.format)
    IN
    /\ r.kind = "convert" /\ r.pc = "transcode"
    /\ \/ /\ inp \in localFiles
          /\ localFiles' = localFiles \cup {out}
          /\ req' = [req EXCEPT ![w] =
                       [r EXCEPT !.pc = "upload_output",
                                 !.io = @ \cup {"ffmpeg", "local_output"}]]
       \/ \* ffmpeg.Error or another exception (199-216): only the input is
          \* removed; ffmpeg may have written part of the output before it failed
          /\ \E partial \in BOOLEAN :
                localFiles' = (IF partial THEN localFiles \cup {out} ELSE localFiles) \ {inp}
          /\ req' = [req EXCEPT ![w] =
                       [Abort(r, 500, "transcode") EXCEPT !.io = @ \cup {"ffmpeg"}]]
    /\ UNCHANGED <<storage_client, store, usedIds, numReq>>
    /\ FlaskUnchanged

\* app.py 223-226: the content type chosen for the target format
output_content_type(target_format) ==
    IF lower(target_format) = Mov THEN "video/quicktime"
    ELSE IF lower(target_format) = Avi THEN "video/x-msvideo"
    ELSE "unbound"

\* app.py 228: upload_from_filename(local_output_path) is called with the path
\* alone, so the write carries no explicit content type whatever was chosen
upload_from_filename_content_type(target_format) == "none"

\* app.py 219-260: upload of the result, the cleanup of the finally block, and
\* the redirect to download_options
convert_upload_output(w) ==
    LET r == req[w]
        inp == local_input_path(r.job_id, r.filename)
        out == local_output_path(r.job_id, r.filename, r.format)
    IN
    /\ r.kind = "convert" /\ r.pc = "upload_output"
    /\ \/ /\ out \in localFiles
          /\ store' = put(OUTPUT_BUCKET_NAME,
                          output_blob_name(r.job_id, r.filename, r.format),
                          upload_from_filename_content_type(r.format))
          /\ req' = [req EXCEPT ![w] =
                       [r EXCEPT !.pc = "done", !.status = 302,
                                 !.io = @ \cup {"put_output"}]]
       \/ \* upload_from_filename raises (231-235)
          /\ req' = [req EXCEPT ![w] = Abort(r, 500, "upload_output")]
          /\ UNCHANGED store
    /\ localFiles' = localFiles \ {inp, out}
    /\ UNCHANGED <<storage_client, usedIds, numReq>>
    /\ FlaskUnchanged

(***************************************************************************)
(* download_video_file / download_transcription_file, both through         *)
(* download_blob_and_serve (app.py 53-108, 319-334).                       *)
(***************************************************************************)
\* app.py 322 and 331: the object a download route asks for
download_blob_name(route, filename) ==
    IF route = "video" THEN ConvertedPrefix \o filename
    ELSE OUTPUT_FOLDER \o ConvertedPrefix \o filename

\* file names a client asks to download: those of the converted videos in the
\* output bucket, their transcripts, and one name nothing was stored under
DownloadFilenames ==
    LET vids == {SubSeq(o.name, Len(ConvertedPrefix) + 1, Len(o.name)) :
                    o \in {x \in store : x.bucket = OUTPUT_BUCKET_NAME
                                         /\ startswith(x.name, ConvertedPrefix)}}
    IN  vids \cup {transcription_filename(v) : v \in vids} \cup {<<"x">>}

\* a client sends GET /download/video/<filename> or /download/transcription/<filename>
ReceiveDownload(w) ==
    /\ req[w].kind = "idle"
    /\ numReq < MaxRequests
    /\ \E route \in {"video", "transcription"}, fn \in DownloadFilenames :
          req' = [req EXCEPT ![w] =
                    [IdleReq EXCEPT !.kind = "download", !.pc = "dl_check",
                                    !.route = route, !.filename = fn]]
    /\ numReq' = numReq + 1
    /\ UNCHANGED <<storage_client, store, localFiles, usedIds>>
    /\ FlaskUnchanged

\* app.py 55-72 with the handlers 97-108.  abort(404) raises werkzeug's
\* HTTPException inside the try block; it is not google.cloud's NotFound, so
\* the handler of line 100 (except Exception) catches it, removes the local
\* path if one exists and aborts with 500.
download_check(w) ==
    LET r == req[w]
        path == download_local_path(r.filename)
        name == download_blob_name(r.route, r.filename)
    IN
    /\ r.kind = "download" /\ r.pc = "dl_check"
    /\ IF ~storage_client
       THEN /\ req' = [req EXCEPT ![w] = Abort(r, 500, "client")]
            /\ UNCHANGED localFiles
       ELSE \/ /\ blob_exists(OUTPUT_BUCKET_NAME, name)
               /\ req' = [req EXCEPT ![w] =
                            [r EXCEPT !.pc = "dl_fetch", !.exists_result = "present"]]
               /\ UNCHANGED localFiles
            \/ /\ ~blob_exists(OUTPUT_BUCKET_NAME, name)
               /\ req' = [req EXCEPT ![w] =
                            [Abort(r, 500, "dl_check") EXCEPT !.exists_result = "absent"]]
               /\ localFiles' = localFiles \ {path}
            \/ \* blob.exists() itself raises
               /\ req' = [req EXCEPT ![w] = Abort(r, 500, "dl_check")]
               /\ localFiles' = localFiles \ {path}
    /\ UNCHANGED <<storage_client, store, usedIds, numReq>>
    /\ FlaskUnchanged

\* app.py 75-77 with the handlers 97-108
download_fetch(w) ==
    LET r == req[w]
        path == download_local_path(r.filename)
        name == download_blob_name(r.route, r.filename)
    IN
    /\ r.kind = "download" /\ r.pc = "dl_fetch"
    /\ \/ /\ blob_exists(OUTPUT_BUCKET_NAME, name)
          /\ localFiles' = localFiles \cup {path}
          /\ req' = [req EXCEPT ![w] =
                       [r EXCEPT !.pc = "dl_send", !.io = @ \cup {"local_download"}]]
       \/ \* google.cloud's NotFound (97-99): abort(404), raised outside the try
          /\ ~blob_exists(OUTPUT_BUCKET_NAME, name)
          /\ \E leftover \in BOOLEAN :
                localFiles' = IF leftover THEN localFiles \cup {path} ELSE localFiles \ {path}
          /\ req' = [req EXCEPT ![w] =
                       [Abort(r, 404, "dl_fetch") EXCEPT !.io = @ \cup {"local_download"}]]
       \/ \* any other exception (100-108)
          /\ localFiles' = localFiles \ {path}
          /\ req' = [req EXCEPT ![w] =
                       [Abort(r, 500, "dl_fetch") EXCEPT !.io = @ \cup {"local_download"}]]
    /\ UNCHANGED <<storage_client, store, usedIds, numReq>>
    /\ FlaskUnchanged

\* app.py 80-95: remove_temp_file is registered, then send_file opens the path
download_send(w) ==
    LET r == req[w]
        path == download_local_path(r.filename)
    IN
    /\ r.kind = "download" /\ r.pc = "dl_send"
    /\ IF path \in localFiles
       THEN req' = [req EXCEPT ![w] = [r EXCEPT !.pc = "dl_cleanup", !.status = 200]]
       ELSE \* send_file raises; handler 100-108 answers 500
            req' = [req EXCEPT ![w] =
                      [r EXCEPT !.pc = "dl_cleanup", !.status = 500, !.failed_at = "dl_send"]]
    /\ UNCHANGED <<storage_client, store, localFiles, usedIds, numReq>>
    /\ FlaskUnchanged

\* app.py 80-87: the after_this_request callback
remove_temp_file(w) ==
    LET r == req[w]
        path == download_local_path(r.filename)
    IN
    /\ r.kind = "download" /\ r.pc = "dl_cleanup"
    /\ localFiles' = localFiles \ {path}
    /\ req' = [req EXCEPT ![w] = [r EXCEPT !.pc = "done"]]
    /\ UNCHANGED <<storage_client, store, usedIds, numReq>>
    /\ FlaskUnchanged

\* the response has been sent; the worker takes the next request
Respond(w) ==
    /\ req[w].pc = "done"
    /\ req' = [req EXCEPT ![w] = IdleReq]
    /\ UNCHANGED <<storage_client, store, localFiles, usedIds, numReq>>
    /\ FlaskUnchanged

\* an object is removed from a bucket by someone else (an operator, a
\* lifecycle rule)
ExternalDelete ==
    /\ \E o \in store : store' = store \ {o}
    /\ UNCHANGED <<storage_client, localFiles, req, usedIds, numReq>>
    /\ FlaskUnchanged

NoTrig == [result |-> "none", bucket |-> <<>>, name |-> <<>>]

NoPoll == [identifier |-> <<>>, status |-> 0,
           video_available |-> FALSE, transcription_available |-> FALSE]

NoPair == [derived |-> FALSE]

\* app.py 22-36: the client may or may not have been constructed; the output
\* bucket may hold a video converted by an earlier run
Init ==
    /\ storage_client \in BOOLEAN
    /\ store \in {{}, {PriorObject}}
    /\ localFiles = {}
    /\ req = [w \in Workers |-> IdleReq]
    /\ usedIds = {PriorJobId}
    /\ numReq = 0
    /\ events = {}
    /\ jobs = {}
    /\ trig = NoTrig
    /\ poll = NoPoll
    /\ pair = NoPair

Next ==
    \/ \E w \in Workers : ReceiveConvert(w)
    \/ \E w \in Workers : convert_validate(w)
    \/ \E w \in Workers : convert_upload_input(w)
    \/ \E w \in Workers : convert_fetch_input(w)
    \/ \E w \in Workers : convert_transcode(w)
    \/ \E w \in Workers : convert_upload_output(w)
    \/ \E w \in Workers : ReceiveDownload(w)
    \/ \E w \in Workers : download_check(w)
    \/ \E w \in Workers : download_fetch(w)
    \/ \E w \in Workers : download_send(w)
    \/ \E w \in Workers : remove_temp_file(w)
    \/ \E w \in Workers : Respond(w)
    \/ ExternalDelete

Spec == Init /\ [][Next]_vars

(***************************************************************************)
(* The storage-triggered function (main.py), the transcription service it  *)
(* submits to, and the page that checks for the results (download_options).*)
(***************************************************************************)
PipelineUnchanged == UNCHANGED <<localFiles, req, usedIds, numReq, pair>>

\* object names written to the buckets: a folder, a free part, an ending
EventNames ==
    {pre \o body \o suf :
        pre \in {<<>>, OUTPUT_FOLDER, ConvertedPrefix},
        body \in SeqsUpTo({"a", ".", "/"}, MaxBodyLen),
        suf \in {<<>>, <<".", "m", "p", "4">>, <<".", "M", "O", "V">>, JsonSuffix}}
      \ {<<>>}

\* events whose data lacks the bucket or the name
MalformedEvents ==
    {[bucket |-> <<>>, name |-> <<"a", ".", "m", "p", "4">>],
     [bucket |-> OUTPUT_BUCKET_NAME, name |-> <<>>]}

\* main.py 24: not bucket_name or not file_name
missing_event_data(bucket_name, file_name) == bucket_name = <<>> \/ file_name = <<>>

in_output_folder_Never(file_name) == FALSE

\* main.py 30: file_name.startswith(OUTPUT_FOLDER)
in_output_folder(file_name) == startswith(file_name, OUTPUT_FOLDER)

\* main.py 36: file_name.lower().endswith(supported_extensions)
supported_video(file_name) == endswith_any(lower(file_name), supported_extensions)

\* main.py 19-83, one invocation.  The client and the request configuration
\* are built outside the try block (52-62), so an exception there leaves the
\* function; one raised by annotate_video (64-83) is printed and dropped.
process_video_transcription ==
    \E e \in events :
        /\ events' = events \ {e}
        /\ IF missing_event_data(e.bucket, e.name)
              \/ in_output_folder(e.name)
              \/ ~supported_video(e.name)
           THEN /\ trig' = [result |-> "discarded", bucket |-> e.bucket, name |-> e.name]
                /\ UNCHANGED jobs
           ELSE \/ \* VideoIntelligenceServiceClient() or the configuration raises
                   /\ trig' = [result |-> "raised", bucket |-> e.bucket, name |-> e.name]
                   /\ UNCHANGED jobs
                \/ \* annotate_video raises
                   /\ trig' = [result |-> "swallowed", bucket |-> e.bucket, name |-> e.name]
                   /\ UNCHANGED jobs
                \/ /\ trig' = [result |-> "submitted", bucket |-> e.bucket, name |-> e.name]
                   /\ jobs' = jobs \cup
                        {[input_uri |-> gcs_input_uri(e.bucket, e.name),
                          output_uri |-> gcs_output_uri(e.bucket, e.name),
                          done |-> FALSE]}
        /\ UNCHANGED <<storage_client, store, poll>>
        /\ PipelineUnchanged

\* gs://<bucket>/<object>: the bucket ends at the first slash after the scheme
ParseGsUri(uri) ==
    LET rest == SubSeq(uri, Len(GsScheme) + 1, Len(uri))
        cut == CHOOSE i \in 1..Len(rest) :
                  rest[i] = "/" /\ \A k \in 1..(i - 1) : rest[k] # "/"
    IN  [bucket |-> SubSeq(rest, 1, cut - 1), name |-> SubSeq(rest, cut + 1, Len(rest))]

\* the transcription service finishes an operation: it writes the result to
\* output_uri, and the bucket emits a storage event for the new object
AnnotateComplete ==
    \E j \in {x \in jobs : ~x.done} :
        LET out == ParseGsUri(j.output_uri) IN
        /\ store' = put(out.bucket, out.name, "none")
        /\ events' = events \cup {[bucket |-> out.bucket, name |-> out.name]}
        /\ jobs' = (jobs \ {j}) \cup {[j EXCEPT !.done = TRUE]}
        /\ UNCHANGED <<storage_client, trig, poll>>
        /\ PipelineUnchanged

\* app.py 288-289 and 297-298: the two existence checks of download_options
video_available(identifier) ==
    blob_exists(OUTPUT_BUCKET_NAME, video_blob_name(identifier))

transcription_available(identifier) ==
    blob_exists(OUTPUT_BUCKET_NAME, transcription_blob_name(identifier))

\* identifiers a client opens the download page for
PollIdentifiers ==
    {SubSeq(o.name, Len(ConvertedPrefix) + 1, Len(o.name)) :
        o \in {x \in store : x.bucket = OUTPUT_BUCKET_NAME
                             /\ startswith(x.name, ConvertedPrefix)
                             /\ Len(x.name) > Len(ConvertedPrefix)}}
      \cup {<<"x">>}

\* app.py 264-315: GET /download_options/<identifier>
download_options ==
    /\ \E identifier \in PollIdentifiers :
          IF ~storage_client
          THEN poll' = [NoPoll EXCEPT !.identifier = identifier, !.status = 500]
          ELSE \/ poll' = [identifier |-> identifier, status |-> 200,
                           video_available |-> video_available(identifier),
                           transcription_available |-> transcription_available(identifier)]
               \/ \* an exists() call raises (305-307)
                  poll' = [NoPoll EXCEPT !.identifier = identifier, !.status = 500]
    /\ UNCHANGED <<storage_client, store, events, jobs, trig>>
    /\ PipelineUnchanged

\* an object has just been written to a bucket (by the conversion service or
\* by anyone else) and its storage event is pending, or a malformed event is
InitPipeline ==
    /\ storage_client \in BOOLEAN
    /\ \/ \E b \in {INPUT_BUCKET_NAME, OUTPUT_BUCKET_NAME}, n \in EventNames :
             /\ store = {[bucket |-> b, name |-> n, content_type |-> "none"]}
             /\ events = {[bucket |-> b, name |-> n]}
       \/ /\ store = {}
          /\ events \in {{e} : e \in MalformedEvents}
    /\ localFiles = {}
    /\ req = [w \in Workers |-> IdleReq]
    /\ usedIds = {}
    /\ numReq = 0
    /\ jobs = {}
    /\ trig = NoTrig
    /\ poll = NoPoll
    /\ pair = NoPair

NextPipeline ==
    \/ process_video_transcription
    \/ AnnotateComplete
    \/ download_options

SpecPipeline == InitPipeline /\ [][NextPipeline]_vars

(***************************************************************************)
(* The names convert_video derives (app.py 138-154), for two requests.     *)
(***************************************************************************)
\* file names of two requests that passed the validation
NamingFilenames == SeqsUpTo({"0", "_", "."}, MaxFileLen) \ {<<>>}

NamingFormats == {Mov, <<"m", "p", "4">>}

NamingRequests ==
    [job_id : JobIds, filename : NamingFilenames, format : NamingFormats]

NoNames == [upload |-> <<>>, output |-> <<>>, local_input |-> <<>>, local_output |-> <<>>]

\* app.py 145-154 for one request
derived_names(r) ==
    [upload |-> input_blob_name(r.job_id, r.filename),
     output |-> output_blob_name(r.job_id, r.filename, r.format),
     local_input |-> local_input_path(r.job_id, r.filename),
     local_output |-> local_output_path(r.job_id, r.filename, r.format)]

InitNames ==
    /\ pair \in {[derived |-> FALSE, a |-> ra, b |-> rb,
                  names_a |-> NoNames, names_b |-> NoNames] :
                    ra \in NamingRequests, rb \in NamingRequests}
    /\ storage_client = TRUE
    /\ store = {}
    /\ localFiles = {}
    /\ req = [w \in Workers |-> IdleReq]
    /\ usedIds = {}
    /\ numReq = 0
    /\ events = {}
    /\ jobs = {}
    /\ trig = NoTrig
    /\ poll = NoPoll

\* both requests derive their names
DeriveNames ==
    /\ ~pair.derived
    /\ pair' = [pair EXCEPT !.derived = TRUE,
                            !.names_a = derived_names(pair.a),
                            !.names_b = derived_names(pair.b)]
    /\ UNCHANGED <<storage_client, store, localFiles, req, usedIds, numReq,
                   events, jobs, trig, poll>>

NextNames == DeriveNames

SpecNames == InitNames /\ [][NextNames]_vars

(***************************************************************************)
(* Properties.                                                             *)
(***************************************************************************)
\* the identifier of a converted video stored as converted/<identifier>
IdentifierOf(name) == SubSeq(name, Len(ConvertedPrefix) + 1, Len(name))

\* C1: for every transcription job submitted for a converted video stored as
\* converted/<identifier> in the output bucket, the output URI the function
\* derived is the output bucket plus exactly the object name download_options
\* checks for that identifier, and once the transcription service has written
\* that output, download_options finds the transcript.
C1_TranscriptPathRoundTrip ==
    \A j \in jobs :
        LET src == ParseGsUri(j.input_uri) IN
        (src.bucket = OUTPUT_BUCKET_NAME /\ startswith(src.name, ConvertedPrefix)) =>
            /\ j.output_uri = GsScheme \o OUTPUT_BUCKET_NAME \o <<"/">>
                                \o transcription_blob_name(IdentifierOf(src.name))
            /\ j.done => transcription_available(IdentifierOf(src.name))

\* a finished job for a converted video, and the page reporting its transcript
C1_Witness ==
    \E j \in jobs :
        /\ j.done
        /\ ParseGsUri(j.input_uri).bucket = OUTPUT_BUCKET_NAME
        /\ startswith(ParseGsUri(j.input_uri).name, ConvertedPrefix)
        /\ poll.status = 200
        /\ poll.identifier = IdentifierOf(ParseGsUri(j.input_uri).name)
        /\ poll.transcription_available

\* C2: two conversion requests with distinct job identifiers share none of
\* their derived names (upload object, output object, local input path, local
\* output path), and within each request the local input path differs from the
\* local output path.
C2_NamesCollisionFree ==
    LET NamesOf(n) == {n.upload, n.output, n.local_input, n.local_output} IN
    pair.derived =>
        /\ pair.a.job_id # pair.b.job_id =>
              NamesOf(pair.names_a) \cap NamesOf(pair.names_b) = {}
        /\ pair.names_a.local_input # pair.names_a.local_output
        /\ pair.names_b.local_input # pair.names_b.local_output

\* two requests with distinct identifiers but the same file name and format
C2_Witness ==
    /\ pair.derived
    /\ pair.a.job_id # pair.b.job_id
    /\ pair.a.filename = pair.b.filename
    /\ pair.a.format = pair.b.format

VideoExtensions ==
    { <<"m", "p", "4">>, <<"m", "o", "v">>, <<"a", "v", "i">>, <<"m", "p", "g">>,
      <<"m", "p", "e", "g">>, <<"m", "k", "v">>, <<"w", "e", "b", "m">> }

\* the extension of an object name: what follows its last dot
ExtensionOf(name) ==
    IF rfind(name, ".") = 0 THEN <<>>
    ELSE SubSeq(name, rfind(name, ".") + 1, Len(name))

Eligible(name) ==
    /\ ~startswith(name, OUTPUT_FOLDER)
    /\ lower(ExtensionOf(name)) \in VideoExtensions

\* C8: a job is submitted for an event only if the object name does not start
\* with transcriptions/ and its extension, lower-cased, is a supported video
\* extension; every other event is discarded; and no job is ever submitted for
\* an object that is the output of a submitted job.
C8_TriggerEligibility ==
    /\ trig.result = "submitted" => Eligible(trig.name)
    /\ (trig.result # "none" /\ ~Eligible(trig.name)) => trig.result = "discarded"
    /\ \A j \in jobs : Eligible(ParseGsUri(j.input_uri).name)
    /\ \A j1, j2 \in jobs : j2.input_uri # j1.output_uri

\* the event of a transcript the service wrote has been delivered and discarded
C8_Witness ==
    /\ trig.result = "discarded"
    /\ \E j \in jobs :
          /\ j.done
          /\ ParseGsUri(j.output_uri) = [bucket |-> trig.bucket, name |-> trig.name]

\* C3: a download (download_video_file or download_transcription_file) of an
\* object that blob.exists() reports absent ends with status 404.
C3_MissingObjectIs404 ==
    \A w \in Workers :
        (req[w].kind = "download" /\ req[w].pc = "done"
            /\ req[w].exists_result = "absent") => req[w].status = 404

RecognisedFormats ==
    { <<"m", "p", "4">>, <<"m", "o", "v">>, <<"a", "v", "i">>, <<"m", "k", "v">>,
      <<"w", "e", "b", "m">> }

\* C4: a conversion request whose target format is not a recognised format
\* performs no I/O at all: no store write, no local file, no transcoder run.
C4_UnrecognisedFormatRejected ==
    \A w \in Workers :
        (req[w].kind = "convert"
            /\ ~(req[w].has_format /\ req[w].format \in RecognisedFormats))
        => req[w].io = {}

\* C5: after a conversion request that failed at the transcode step has ended,
\* neither its local input file nor its local output file exists.
C5_TranscodeFailureLeavesNoFiles ==
    \A w \in Workers :
        (req[w].kind = "convert" /\ req[w].pc = "done"
            /\ req[w].failed_at = "transcode")
        => /\ local_input_path(req[w].job_id, req[w].filename) \notin localFiles
           /\ local_output_path(req[w].job_id, req[w].filename, req[w].format)
                 \notin localFiles

\* the content type the target format calls for; "none" when it has no override
ContentTypeOverride(format) ==
    IF format = Mov THEN "video/quicktime"
    ELSE IF format = Avi THEN "video/x-msvideo"
    ELSE "none"

\* C6: the object a successful conversion wrote to the output bucket carries
\* the content type override of its target format (video/quicktime for mov,
\* video/x-msvideo for avi), and no explicit content type for other formats.
C6_ContentTypeOverrideApplied ==
    \A w \in Workers :
        (req[w].kind = "convert" /\ req[w].pc = "done" /\ req[w].status = 302)
        => \A o \in Blob(OUTPUT_BUCKET_NAME,
                         output_blob_name(req[w].job_id, req[w].filename, req[w].format)) :
              o.content_type = ContentTypeOverride(req[w].format)

\* a conversion request without a file or without a target format
LacksFileOrFormat(r) ==
    ~r.has_video \/ r.filename = <<>> \/ ~r.has_format \/ r.format = <<>>

\* C7 as stated: a conversion request that lacks a file or a target format
\* performs no I/O and ends with status 400.
C7_Original ==
    \A w \in Workers :
        (req[w].kind = "convert" /\ LacksFileOrFormat(req[w]))
        => /\ req[w].io = {}
           /\ req[w].pc = "done" => req[w].status = 400

\* C7 amended: a conversion request that lacks a file or a target format
\* performs no I/O and mints no job identifier; it ends with status 400 when
\* the storage client was constructed at start-up, and with status 500 (the
\* client check comes first) when it was not.
C7_ValidationFailureNoIO ==
    \A w \in Workers :
        (req[w].kind = "convert" /\ LacksFileOrFormat(req[w]))
        => /\ req[w].io = {}
           /\ req[w].job_id = <<>>
           /\ req[w].pc = "done" =>
                 req[w].status = IF storage_client THEN 400 ELSE 500

\* a request with a file but no target format has been answered 400
C7_Witness ==
    \E w \in Workers :
        /\ req[w].kind = "convert" /\ req[w].pc = "done"
        /\ req[w].has_video /\ req[w].filename # <<>> /\ ~req[w].has_format
        /\ req[w].status = 400

\* the local scratch files a request is using
ScratchInUse(w) ==
    IF req[w].kind = "convert" /\ req[w].pc = "transcode"
    THEN {local_input_path(req[w].job_id, req[w].filename)}
    ELSE IF req[w].kind = "convert" /\ req[w].pc = "upload_output"
    THEN {local_input_path(req[w].job_id, req[w].filename),
          local_output_path(req[w].job_id, req[w].filename, req[w].format)}
    ELSE IF req[w].kind = "download" /\ req[w].pc = "dl_send"
    THEN {download_local_path(req[w].filename)}
    ELSE {}

\* C9: two in-flight requests never use the same local scratch path, and a
\* scratch file a request is using is not removed under it.
C9_ScratchPathsPerRequest ==
    /\ \A w1, w2 \in Workers :
          w1 # w2 => ScratchInUse(w1) \cap ScratchInUse(w2) = {}
    /\ \A w \in Workers : ScratchInUse(w) \subseteq localFiles

\* C10: after a conversion request whose re-fetch of the uploaded input failed
\* (the object missing included) has ended, it has status 500 and none of its
\* local working files exists.
C10_FetchFailureLeavesNoFiles ==
    \A w \in Workers :
        (req[w].kind = "convert" /\ req[w].pc = "done"
            /\ req[w].failed_at = "fetch_input")
        => /\ req[w].status = 500
           /\ local_input_path(req[w].job_id, req[w].filename) \notin localFiles
           /\ local_output_path(req[w].job_id, req[w].filename, req[w].format)
                 \notin localFiles

\* C11: every invocation of process_video_transcription for an eligible event
\* returns normally, whether the job was submitted or starting it failed (in
\* the client's construction, the request configuration or the submit call):
\* no exception leaves the function.
C11_StartFailuresSwallowed ==
    (trig.result # "none" /\ Eligible(trig.name) /\ trig.bucket # <<>>)
        => trig.result \in {"submitted", "swallowed"}

====
